---------------------------- MODULE Spec2Model ----------------------------
(***************************************************************************)
(* font_to_svg: do_outline (src/font_to_svg.hpp) turns a glyph outline     *)
(* (points, tags, contour end indices) into the commands of an SVG path.   *)
(*                                                                         *)
(* Numbers.  A point coordinate is an integer (FT_Pos).  An offset is a    *)
(* double; the model draws it from the multiples of 1/OffDen, which a      *)
(* double holds exactly, and keeps its numerator.  A number written to the *)
(* svg stream is kept in units of 1/Scale: an int n is n * Scale, and a    *)
(* double is the value the stream prints for it (6 significant digits).    *)
(* The loop counter of fullQuadraticBezier is an IEEE double and is kept   *)
(* exactly, as an integer count of 2^-56 held in two limbs of 28 bits.     *)
(***************************************************************************)
EXTENDS Integers, Sequences, FiniteSets

\* ------------------------------------------------------------ bounds

\* Most points of an outline.
MaxPts == 4

\* Most contours of an outline.
MaxContours == 2

\* ------------------------------------------------------------ numbers

\* Units per 1 of a number written to the stream (3 decimals).
Scale == 1000

\* Offsets are multiples of 1/OffDen.
OffDen == 2

\* A double that is not 0 and is too small to print as a decimal of the
\* model's resolution (the stream prints it in exponent notation, such as
\* 2.22045e-15): one unit of 1/Scale.
Residue == 1

\* C++ integer division and conversion of a double to int: toward zero.
TruncDiv(n, d) == IF n >= 0 THEN n \div d ELSE -((-n) \div d)

\* int v = p + offset (a long plus a double, converted to int).
ToInt(p, off) == TruncDiv(p * OffDen + off, OffDen)

\* stream << (p + offset): the double itself.
PrintSum(p, off) == (p * OffDen + off) * (Scale \div OffDen)

\* stream << n for an int n.
PrintInt(n) == n * Scale

\* ------------------------------------------------------------ doubles

\* A double d with 0 <= d < 2 is the record [hi, lo] of the integer
\* d * 2^56 = hi * Limb + lo.  Every double from 2^-3 up is such an integer.
Limb == 2^28

\* 0.0 and 1.0
DZero == [hi |-> 0, lo |-> 0]

DOne == [hi |-> Limb, lo |-> 0]

\* double increment = 0.1: the double nearest 1/10 is
\* 0x1999999999999A * 2^-56 (limbs 0x1999999 and 0x999999A).
increment == [hi |-> 26843545, lo |-> 161061274]

\* a < b on doubles
DLess(a, b) == a.hi < b.hi \/ (a.hi = b.hi /\ a.lo < b.lo)

\* The number of low bits a sum of hi * Limb + lo loses when it is rounded
\* to the 53 bits of a double's significand: the sum has 53 + DropBits bits.
DropBits(hi) ==
    IF hi < 2^25 THEN 0
    ELSE IF hi < 2^26 THEN 1
    ELSE IF hi < 2^27 THEN 2
    ELSE IF hi < 2^28 THEN 3
    ELSE 4

\* a + b on doubles: the exact sum, rounded to nearest, ties to even.
DAdd(a, b) ==
    LET lo0 == a.lo + b.lo
        hi0 == a.hi + b.hi + (lo0 \div Limb)
        lo1 == lo0 % Limb
        u   == 2^DropBits(hi0)
        q   == lo1 \div u
        r   == lo1 % u
        up  == IF 2 * r > u \/ (2 * r = u /\ q % 2 = 1) THEN 1 ELSE 0
        lo2 == (q + up) * u
    IN  [hi |-> hi0 + (lo2 \div Limb), lo |-> lo2 % Limb]

\* ------------------------------------------------------------ tessellation

\* The tenth nearest the double t (t is within 2^-50 of a tenth).
Tenths(t) == ((t.hi \div 16) * 10 + 2^23) \div 2^24

\* One coordinate of quadraticBezier, as the stream prints it:
\*   pow(1 - t, 2) * p0 + (1 - t) * 2 * t * p1 + t * t * p2
\* for integers 0 <= p0, p1, p2 < 1000 and t < 1.  At the tenth k/10 the
\* sum is a multiple of 1/100 and the double is within 1e-12 of it, so the 6
\* digits printed are that multiple, unless it is 0: the double is 0 only
\* when each of its three products is, and is a residue otherwise.
BezierCoord(p0, p1, p2, t) ==
    LET k     == Tenths(t)
        exact == (10 - k) * (10 - k) * p0 + 2 * k * (10 - k) * p1 + k * k * p2
        zero  == /\ p0 = 0
                 /\ (p1 = 0 \/ t = DZero)
                 /\ (p2 = 0 \/ t = DZero)
    IN  IF exact = 0 /\ ~zero THEN Residue ELSE exact * (Scale \div 100)

quadraticBezier(p0, p1, p2, t) ==
    [x |-> BezierCoord(p0.x, p1.x, p2.x, t),
     y |-> BezierCoord(p0.y, p1.y, p2.y, t)]

\* for (double i = 0; i < 1.0; i += increment): the values i takes.
RECURSIVE SampleLoop(_, _)
SampleLoop(i, res) ==
    IF DLess(i, DOne)
    THEN SampleLoop(DAdd(i, increment), Append(res, i))
    ELSE res

SampleParamsFrom(i0) == SampleLoop(i0, << >>)

SampleParamsLate == SampleParamsFrom(increment)

SampleParams == SampleParamsFrom(DZero)

\* The samples fullQuadraticBezier returns, one per value of i.
fullQuadraticBezier(p0, p1, p2) ==
    LET ts == SampleParams
    IN  [n \in 1..Len(ts) |-> quadraticBezier(p0, p1, p2, ts[n])]

\* One " L x y" per sample.
svgQuadraticBezier(quadBezier) ==
    [n \in 1..Len(quadBezier) |-> <<"L", quadBezier[n].x, quadBezier[n].y>>]

\* ------------------------------------------------------------ state

VARIABLES
    points,                     \* std::vector<FT_Vector>: [x, y] each
    tags,                       \* std::vector<char>
    contours,                   \* std::vector<short>: last index of each contour
    offsetX, offsetY,           \* doubles, as numerators over OffDen
    generateBezierStatements,   \* Q commands (TRUE) or sampled lines (FALSE)
    pc,                         \* "start", "contour", "point", "done", "undefined"
    i, j,                       \* the two loop counters
    contour_starti, contour_endi,
    svg,                        \* the commands written to the d attribute
    result,                     \* what do_outline returns
    last,                       \* history: the commands the last step wrote
    call                        \* history: the last fullQuadraticBezier call

vars == <<points, tags, contours, offsetX, offsetY, generateBezierStatements,
          pc, i, j, contour_starti, contour_endi, svg, result, last, call>>

inputs == <<points, tags, contours, offsetX, offsetY, generateBezierStatements>>

\* v.at(k) and v[k] of a vector, whose indices start at 0.
At(v, k) == v[k + 1]

InRange(v, k) == k >= 0 /\ k < Len(v)

\* ------------------------------------------------------------ inputs

\* The points and tags outlines are made of: 1 is on the curve, 0 is a
\* control point.
PointPool ==
    { [x |-> 0,  y |-> 0,  tag |-> 1],
      [x |-> 10, y |-> 0,  tag |-> 0],
      [x |-> 20, y |-> 0,  tag |-> 1],
      [x |-> 10, y |-> 10, tag |-> 0],
      [x |-> 20, y |-> 0,  tag |-> 0],
      [x |-> 30, y |-> 0,  tag |-> 1] }

\* The offsets (0, 0), (0.5, 0.5) and (-17.5, -0.5).
OffsetPool == { <<0, 0>>, <<1, 1>>, <<-35, -1>> }

\* The contour vectors of a well-formed outline of n points: increasing
\* last indices, the final one n - 1.
ContourVectors(n) ==
    { c \in UNION { [1..k -> 0..(n - 1)] : k \in 1..MaxContours } :
        /\ c[Len(c)] = n - 1
        /\ \A a \in 1..(Len(c) - 1) : c[a] < c[a + 1] }

\* Every coordinate is 0 or more once the offset is added.
NonNegative(pts, ox, oy) ==
    \A k \in 1..Len(pts) : pts[k].x * OffDen + ox >= 0 /\ pts[k].y * OffDen + oy >= 0

\* ------------------------------------------------------------ the loop body

\* bool this_isctl = !(tags[k] & 1)
IsCtl(tgs, k) == At(tgs, k) % 2 = 0

\* int npts = contour_endi - contour_starti + 1
PointCountShort(starti, endi) == endi - starti

PointCount(starti, endi) == endi - starti + 1

\* int thisi = j%npts + offset, nexti = (j+1)%npts + offset,
\* nextnexti = (j+2)%npts + offset
ThisIndex(jj, npts, offset) == (jj % npts) + offset

NextIndexNoOffset(jj, npts, offset) == (jj + 1) % npts

NextIndex(jj, npts, offset) == ((jj + 1) % npts) + offset

NextNextIndexAsNext(jj, npts, offset) == ((jj + 1) % npts) + offset

NextNextIndex(jj, npts, offset) == ((jj + 2) % npts) + offset

\* x = (x + nx) / 2 and nnx = (nx + nnx) / 2, on ints
HalfwayFloor(a, b) == (a + b) \div 2

Halfway(a, b) == TruncDiv(a + b, 2)

\* this_isctl after "if (this_isctl && next_isctl) { ... this_isctl = false; }"
ResetIsCtlForgotten(this_isctl, next_isctl) == this_isctl

ResetIsCtl(this_isctl, next_isctl) ==
    IF this_isctl /\ next_isctl THEN FALSE ELSE this_isctl

\* svg << "\n M " << points[contour_starti].x + offsetX << "," << ...
FirstMove(pts, starti, ox, oy) ==
    <<"M", PrintSum(At(pts, starti).x, ox), PrintSum(At(pts, starti).y, oy)>>

\* One pass of the loop over j: the corrective move it writes (or none), the
\* commands it draws with, and its fullQuadraticBezier call (or none): the
\* three points passed and the samples returned.
Iteration(pts, tgs, offset, npts, jj, ox, oy, gen) ==
    LET thisi     == ThisIndex(jj, npts, offset)
        nexti     == NextIndex(jj, npts, offset)
        nextnexti == NextNextIndex(jj, npts, offset)
        x0  == ToInt(At(pts, thisi).x, ox)
        y0  == ToInt(At(pts, thisi).y, oy)
        nx  == ToInt(At(pts, nexti).x, ox)
        ny  == ToInt(At(pts, nexti).y, oy)
        nnx0 == ToInt(At(pts, nextnexti).x, ox)
        nny0 == ToInt(At(pts, nextnexti).y, oy)
        this_isctl0    == IsCtl(tgs, thisi)
        next_isctl     == IsCtl(tgs, nexti)
        nextnext_isctl == IsCtl(tgs, nextnexti)
        adjacent   == this_isctl0 /\ next_isctl
        x == IF adjacent THEN Halfway(x0, nx) ELSE x0
        y == IF adjacent THEN Halfway(y0, ny) ELSE y0
        this_isctl == ResetIsCtl(this_isctl0, next_isctl)
        curve == ~this_isctl /\ next_isctl
        nnx == IF curve /\ nextnext_isctl THEN Halfway(nx, nnx0) ELSE nnx0
        nny == IF curve /\ nextnext_isctl THEN Halfway(ny, nny0) ELSE nny0
        p0 == [x |-> x, y |-> y]
        p1 == [x |-> nx, y |-> ny]
        p2 == [x |-> nnx, y |-> nny]
        samples == fullQuadraticBezier(p0, p1, p2)
    IN  [move |-> IF adjacent /\ jj = 0
                  THEN << <<"M", PrintInt(x), PrintInt(y)>> >>
                  ELSE << >>,
         draw |-> IF curve
                  THEN IF gen
                       THEN << <<"Q", PrintInt(nx), PrintInt(ny),
                                      PrintInt(nnx), PrintInt(nny)>> >>
                       ELSE svgQuadraticBezier(samples)
                  ELSE IF ~this_isctl /\ ~next_isctl
                       THEN << <<"L", PrintInt(nx), PrintInt(ny)>> >>
                       ELSE << >>,
         bez  |-> IF curve /\ ~gen
                  THEN [p0 |-> p0, p1 |-> p1, p2 |-> p2, res |-> samples]
                  ELSE << >>]

IterationCmds(pts, tgs, offset, npts, jj, ox, oy, gen) ==
    LET it == Iteration(pts, tgs, offset, npts, jj, ox, oy, gen)
    IN  it.move \o it.draw

\* ------------------------------------------------------------ do_outline

NoPointsUnchecked == FALSE

NoPoints == Len(points) = 0

NoContours == Len(contours) = 0

\* if (points.size()==0) return "<!-- font had 0 points -->";
ReturnNoPoints ==
    /\ pc = "start"
    /\ NoPoints
    /\ pc' = "done"
    /\ result' = "<!-- font had 0 points -->"
    /\ last' = << >>
    /\ UNCHANGED <<inputs, i, j, contour_starti, contour_endi, svg, call>>

\* if (contours.size()==0) return "<!-- font had 0 contours -->";
ReturnNoContours ==
    /\ pc = "start"
    /\ ~NoPoints
    /\ NoContours
    /\ pc' = "done"
    /\ result' = "<!-- font had 0 contours -->"
    /\ last' = << >>
    /\ UNCHANGED <<inputs, i, j, contour_starti, contour_endi, svg, call>>

\* svg << "<path ... d='"; contour_starti = 0; contour_endi = 0; i = 0
BeginPath ==
    /\ pc = "start"
    /\ ~NoPoints
    /\ ~NoContours
    /\ pc' = "contour"
    /\ i' = 0
    /\ contour_starti' = 0
    /\ contour_endi' = 0
    /\ last' = << >>
    /\ UNCHANGED <<inputs, j, svg, result, call>>

\* The head of the loop over the contours: the move to the first point.
\* Reading points[contour_starti] past the end of the vector is undefined.
NewContour ==
    /\ pc = "contour"
    /\ i < Len(contours)
    /\ contour_endi' = At(contours, i)
    /\ j' = 0
    /\ IF InRange(points, contour_starti) /\ InRange(points, At(contours, i))
       THEN /\ pc' = "point"
            /\ last' = << FirstMove(points, contour_starti, offsetX, offsetY) >>
            /\ svg' = svg \o last'
            /\ result' = result
       ELSE /\ pc' = "undefined"
            /\ last' = << >>
            /\ svg' = svg
            /\ result' = "undefined"
    /\ UNCHANGED <<inputs, i, contour_starti, call>>

\* One pass of the loop over the points of the contour.
NextPoint ==
    /\ pc = "point"
    /\ j < PointCount(contour_starti, contour_endi)
    /\ LET it == Iteration(points, tags, contour_starti,
                           PointCount(contour_starti, contour_endi), j,
                           offsetX, offsetY, generateBezierStatements)
       IN  /\ last' = it.move \o it.draw
           /\ svg' = svg \o last'
           /\ call' = IF it.bez = << >> THEN call ELSE it.bez
    /\ j' = j + 1
    /\ UNCHANGED <<inputs, pc, i, contour_starti, contour_endi, result>>

\* contour_starti = contour_endi+1; svg << " Z\n"; i++
CloseContour ==
    /\ pc = "point"
    /\ j >= PointCount(contour_starti, contour_endi)
    /\ contour_starti' = contour_endi + 1
    /\ last' = << <<"Z">> >>
    /\ svg' = svg \o last'
    /\ i' = i + 1
    /\ pc' = "contour"
    /\ UNCHANGED <<inputs, j, contour_endi, result, call>>

\* svg << "'/>"; return svg.str();
ReturnPath ==
    /\ pc = "contour"
    /\ i >= Len(contours)
    /\ pc' = "done"
    /\ result' = "path"
    /\ last' = << >>
    /\ UNCHANGED <<inputs, i, j, contour_starti, contour_endi, svg, call>>

\* The arguments of a call.  The degenerate calls are those of zero points or
\* of zero contours; the others are well-formed outlines, of distinct points
\* of the pool.  Sampled lines are drawn for coordinates of 0 or more.
Init ==
    /\ \E n \in 0..MaxPts : \E pool \in [1..n -> PointPool] :
           /\ \A a, b \in 1..n : a # b => pool[a] # pool[b]
           /\ points = [k \in 1..n |-> [x |-> pool[k].x, y |-> pool[k].y]]
           /\ tags = [k \in 1..n |-> pool[k].tag]
           /\ contours \in IF n = 0 THEN { << >>, <<0>> }
                            ELSE ContourVectors(n) \cup { << >> }
    /\ \E off \in OffsetPool : offsetX = off[1] /\ offsetY = off[2]
    /\ generateBezierStatements \in BOOLEAN
    /\ generateBezierStatements \/ NonNegative(points, offsetX, offsetY)
    /\ pc = "start"
    /\ i = 0
    /\ j = 0
    /\ contour_starti = 0
    /\ contour_endi = 0
    /\ svg = << >>
    /\ result = ""
    /\ last = << >>
    /\ call = << >>

Next ==
    \/ ReturnNoPoints
    \/ ReturnNoContours
    \/ BeginPath
    \/ NewContour
    \/ NextPoint
    \/ CloseContour
    \/ ReturnPath

Spec == Init /\ [][Next]_vars

\* ------------------------------------------------------------ a whole call

\* The commands of the loop over j, from pass jj on.
RECURSIVE PointLoop(_, _, _, _, _, _, _, _)
PointLoop(pts, tgs, offset, npts, jj, ox, oy, gen) ==
    IF jj < npts
    THEN IterationCmds(pts, tgs, offset, npts, jj, ox, oy, gen)
         \o PointLoop(pts, tgs, offset, npts, jj + 1, ox, oy, gen)
    ELSE << >>

\* The commands of the loop over the contours, from contour ii on.
RECURSIVE ContourLoop(_, _, _, _, _, _, _, _)
ContourLoop(pts, tgs, cts, ii, starti, ox, oy, gen) ==
    IF ii < Len(cts)
    THEN LET endi == At(cts, ii)
         IN  << FirstMove(pts, starti, ox, oy) >>
             \o PointLoop(pts, tgs, starti, PointCount(starti, endi), 0, ox, oy, gen)
             \o << <<"Z">> >>
             \o ContourLoop(pts, tgs, cts, ii + 1, endi + 1, ox, oy, gen)
    ELSE << >>

\* The commands of do_outline for an outline of some points and contours.
do_outline(pts, tgs, cts, ox, oy, gen) ==
    ContourLoop(pts, tgs, cts, 0, 0, ox, oy, gen)

\* ------------------------------------------------------------ reading a path

\* The subpaths of a command sequence: each runs up to and with its Z.
RECURSIVE SplitAtZ(_, _)
SplitAtZ(cmds, cur) ==
    IF cmds = << >> THEN << >>
    ELSE IF Head(cmds)[1] = "Z"
         THEN << Append(cur, Head(cmds)) >> \o SplitAtZ(Tail(cmds), << >>)
         ELSE SplitAtZ(Tail(cmds), Append(cur, Head(cmds)))

Subpaths(cmds) == SplitAtZ(cmds, << >>)

\* How many commands of a sequence are of one kind.
CountKind(cmds, kind) == Cardinality({ n \in 1..Len(cmds) : cmds[n][1] = kind })

\* Contour k (from 1) of the outline: its first index, its number of points,
\* the index of its m-th point (from 0, cyclic), and whether that point is a
\* control point.
FirstOf(k) == IF k = 1 THEN 0 ELSE contours[k - 1] + 1

SizeOf(k) == contours[k] - FirstOf(k) + 1

IndexOf(k, m) == FirstOf(k) + (m % SizeOf(k))

OffCurve(k, m) == tags[IndexOf(k, m) + 1] % 2 = 0

\* The integer coordinates of point idx (from 0) under the offset, as
\* written to the stream.
IntX(idx) == PrintInt(ToInt(points[idx + 1].x, offsetX))

IntY(idx) == PrintInt(ToInt(points[idx + 1].y, offsetY))

\* The call has returned a path.
Returned == pc = "done" /\ result = "path"

\* A pass of the loop over j has just run: pass j - 1 of contour i + 1, whose
\* this, next and nextnext points have these indices.
AfterPass == pc = "point" /\ j >= 1

ThisPt == IndexOf(i + 1, j - 1)

NextPt == IndexOf(i + 1, j)

NextNextPt == IndexOf(i + 1, j + 1)

IsOff(idx) == tags[idx + 1] % 2 = 0

\* The point a command ends at, and the control point of a Q.
EndPoint(c) == <<c[Len(c) - 1], c[Len(c)]>>

ControlPoint(c) == <<c[2], c[3]>>

\* Half the sum of two ints, cut toward zero: twice it is the sum, or the
\* sum less one unit of its sign.
HalfOf(a, b) ==
    LET sum == a + b
        lo  == IF a < b THEN a ELSE b
        hi  == IF a < b THEN b ELSE a
    IN  CHOOSE m \in lo..hi :
            \/ 2 * m = sum
            \/ sum > 0 /\ 2 * m = sum - 1
            \/ sum < 0 /\ 2 * m = sum + 1

\* The midpoint of points ia and ib (from 0) in int coordinates.
MidInt(ia, ib) ==
    <<HalfOf(ToInt(points[ia + 1].x, offsetX), ToInt(points[ib + 1].x, offsetX)),
      HalfOf(ToInt(points[ia + 1].y, offsetY), ToInt(points[ib + 1].y, offsetY))>>

\* The same as written to the stream.
MidOut(ia, ib) == <<PrintInt(MidInt(ia, ib)[1]), PrintInt(MidInt(ia, ib)[2])>>

\* ------------------------------------------------------------ claims

\* C1: a contour of on-curve points p0..pn-1 only is written as the move to
\* p0, a line to each of p1..pn-1 in order, a line back to p0 and Z: n lines
\* and no Q, with Q commands or with sampled lines.  The move carries the sum
\* of p0 and the offset as the code writes it, the lines the int coordinates.
C1_PolygonContour ==
    Returned =>
        \A k \in 1..Len(contours) :
            (\A m \in 0..(SizeOf(k) - 1) : ~OffCurve(k, m)) =>
                Subpaths(svg)[k] =
                    << <<"M", PrintSum(points[FirstOf(k) + 1].x, offsetX),
                              PrintSum(points[FirstOf(k) + 1].y, offsetY)>> >>
                    \o [m \in 1..SizeOf(k) |->
                           <<"L", IntX(IndexOf(k, m)), IntY(IndexOf(k, m))>>]
                    \o << <<"Z">> >>

\* A polygon of three points has been written as sampled lines would be, as
\* the second contour of an outline.
C1_Witness ==
    /\ Returned
    /\ ~generateBezierStatements
    /\ Len(contours) = 2
    /\ SizeOf(2) = 3
    /\ \A m \in 0..2 : ~OffCurve(2, m)
    /\ CountKind(Subpaths(svg)[2], "L") = 3

\* The contour [on A, off C, on B] alone, with offset (0, 0) and Q commands.
SingleCurveCall ==
    /\ Len(points) = 3
    /\ contours = <<2>>
    /\ tags = <<1, 0, 1>>
    /\ offsetX = 0 /\ offsetY = 0
    /\ generateBezierStatements

\* C2 as stated: the contour [on A, off C, on B] with offset (0, 0) and Q
\* commands is written as M A; Q C B; Z, with nothing between the Q and the Z.
C2_AsStated ==
    (Returned /\ SingleCurveCall) =>
        svg = << <<"M", IntX(0), IntY(0)>>,
                 <<"Q", IntX(1), IntY(1), IntX(2), IntY(2)>>,
                 <<"Z">> >>

\* C2 as amended: the contour is written as M A; Q C B; L A; Z: the pass
\* of the loop at B, whose next point is A, draws the line back to A.
C2_SingleCurve ==
    (Returned /\ SingleCurveCall) =>
        svg = << <<"M", IntX(0), IntY(0)>>,
                 <<"Q", IntX(1), IntY(1), IntX(2), IntY(2)>>,
                 <<"L", IntX(0), IntY(0)>>,
                 <<"Z">> >>

\* The call for A = (0,0), C = (10,0), B = (20,0) has returned.
C2_Witness ==
    /\ Returned
    /\ SingleCurveCall
    /\ points = << [x |-> 0, y |-> 0], [x |-> 10, y |-> 0], [x |-> 20, y |-> 0] >>
    /\ svg = << <<"M", 0, 0>>, <<"Q", 10 * Scale, 0, 20 * Scale, 0>>,
                <<"L", 0, 0>>, <<"Z">> >>

\* The contour [on(0,0), off(10,10), off(20,0), on(30,0)] alone, with offset
\* (0, 0) and Q commands.
TwoControlsCall ==
    /\ points = << [x |-> 0, y |-> 0], [x |-> 10, y |-> 10],
                   [x |-> 20, y |-> 0], [x |-> 30, y |-> 0] >>
    /\ tags = <<1, 0, 0, 1>>
    /\ contours = <<3>>
    /\ offsetX = 0 /\ offsetY = 0
    /\ generateBezierStatements

\* C3: two control points that follow each other round a contour get the
\* midpoint of their int coordinates, cut toward zero, between them.  The
\* pass whose next and nextnext they are ends its curve, whose control is the
\* first, at the midpoint; the pass whose this and next they are starts its
\* curve, whose control is the second, there (the command before its Q ends
\* at the midpoint, and the sampled curve is called with it as start).  A Q
\* ends at the midpoint or at an on-curve nextnext, never at a control point
\* as such.  The contour [on(0,0), off(10,10), off(20,0), on(30,0)] gets
\* Q 10,10 15,5 and then Q 20,0 30,0.
C3_MidpointSynthesis ==
    /\ (AfterPass /\ generateBezierStatements) =>
          LET q == last[Len(last)]
          IN  /\ IsOff(NextPt) =>
                    /\ last # << >>
                    /\ q[1] = "Q"
                    /\ ControlPoint(q) = <<IntX(NextPt), IntY(NextPt)>>
                    /\ EndPoint(q) = IF IsOff(NextNextPt)
                                     THEN MidOut(NextPt, NextNextPt)
                                     ELSE <<IntX(NextNextPt), IntY(NextNextPt)>>
              /\ (IsOff(ThisPt) /\ IsOff(NextPt)) =>
                    EndPoint(svg[Len(svg) - 1]) = MidOut(ThisPt, NextPt)
    /\ (AfterPass /\ ~generateBezierStatements /\ IsOff(NextPt)) =>
          /\ call # << >>
          /\ <<call.p1.x, call.p1.y>> =
                <<ToInt(points[NextPt + 1].x, offsetX),
                  ToInt(points[NextPt + 1].y, offsetY)>>
          /\ IsOff(NextNextPt) =>
                <<call.p2.x, call.p2.y>> = MidInt(NextPt, NextNextPt)
          /\ IsOff(ThisPt) =>
                <<call.p0.x, call.p0.y>> = MidInt(ThisPt, NextPt)
    /\ (Returned /\ TwoControlsCall) =>
          svg = << <<"M", 0, 0>>,
                   <<"Q", 10 * Scale, 10 * Scale, 15 * Scale, 5 * Scale>>,
                   <<"Q", 20 * Scale, 0, 30 * Scale, 0>>,
                   <<"L", 0, 0>>,
                   <<"Z">> >>

\* The second pass over [on(0,0), off(10,10), off(20,0), on(30,0)] has run:
\* its curve starts at (15,5), where the curve before it ended.
C3_Witness ==
    /\ TwoControlsCall
    /\ AfterPass
    /\ j = 2
    /\ IsOff(ThisPt) /\ IsOff(NextPt)
    /\ EndPoint(svg[Len(svg) - 1]) = <<15 * Scale, 5 * Scale>>
    /\ last = << <<"Q", 20 * Scale, 0, 30 * Scale, 0>> >>

\* The coordinates of a command, and whether each is a whole number.
Coordinates(c) == { c[n] : n \in 2..Len(c) }

WholeNumbers(c) == \A v \in Coordinates(c) : v % Scale = 0

\* The sample of a curve at t = k/10, cut to an integer.
CutSample(p0, p1, p2, k) ==
    TruncDiv((10 - k) * (10 - k) * p0 + 2 * k * (10 - k) * p1 + k * k * p2, 100)

\* C4 as stated: with sampled lines and offset (0, 0) the contour
\* [on(0,0), off(10,0), on(20,0)] is written as M 0,0, then 10 lines to the
\* samples of the curve at t = 0, 0.1, ..., 0.9 cut to integers, then Z, and
\* nothing else; and every curve is written as exactly 10 lines to whole
\* numbers.
C4_AsStated ==
    /\ (/\ Returned
        /\ points = << [x |-> 0, y |-> 0], [x |-> 10, y |-> 0], [x |-> 20, y |-> 0] >>
        /\ tags = <<1, 0, 1>>
        /\ contours = <<2>>
        /\ offsetX = 0 /\ offsetY = 0
        /\ ~generateBezierStatements) =>
          svg = << <<"M", 0, 0>> >>
                \o [n \in 1..10 |->
                       <<"L", PrintInt(CutSample(0, 10, 20, n - 1)),
                              PrintInt(CutSample(0, 0, 0, n - 1))>>]
                \o << <<"Z">> >>
    /\ (AfterPass /\ ~generateBezierStatements /\ IsOff(NextPt)) =>
          /\ CountKind(last, "L") = 10
          /\ \A n \in 1..Len(last) : WholeNumbers(last[n])

\* C5 as stated: every coordinate of every command written is a whole number,
\* the sum of a point coordinate and the offset cut to an integer; the move
\* that opens a contour is to the cut coordinates of its first point.
C5_AsStated ==
    /\ \A n \in 1..Len(svg) : WholeNumbers(svg[n])
    /\ (pc = "point" /\ j = 0) =>
          last = << <<"M", IntX(contour_starti), IntY(contour_starti)>> >>

\* The translations (0.5, 0), (1, 1), (0, 1.5) and (10, 10), as numerators
\* over OffDen.
Translations == { <<1, 0>>, <<2, 2>>, <<0, 3>>, <<20, 20>> }

\* Command c moved by (dx, dy).
Shifted(c, dx, dy) ==
    [n \in 1..Len(c) |->
        IF n = 1 THEN c[1] ELSE IF n % 2 = 0 THEN c[n] + dx ELSE c[n] + dy]

\* C6 as stated: the call with the offset moved by (dx, dy) writes the same
\* commands with every coordinate moved by (floor(dx), floor(dy)).
C6_AsStated ==
    Returned =>
        \A d \in Translations :
            do_outline(points, tags, contours, offsetX + d[1], offsetY + d[2],
                       generateBezierStatements)
            = [n \in 1..Len(svg) |->
                 Shifted(svg[n], PrintInt(d[1] \div OffDen), PrintInt(d[2] \div OffDen))]

\* The outline made of contours a..b of the call's outline alone: its
\* points, tags and contour vector (last indices counted from its own first
\* point).
PartPoints(a, b) == SubSeq(points, FirstOf(a) + 1, contours[b] + 1)

PartTags(a, b) == SubSeq(tags, FirstOf(a) + 1, contours[b] + 1)

PartContours(a, b) == [k \in 1..(b - a + 1) |-> contours[a + k - 1] - FirstOf(a)]

PartPath(a, b) ==
    do_outline(PartPoints(a, b), PartTags(a, b), PartContours(a, b),
               offsetX, offsetY, generateBezierStatements)

\* C7: an outline made of the contours of an outline A followed by those of
\* an outline B is written, contour by contour and in order, as A alone is
\* and then as B alone is.
C7_ContourIndependence ==
    Returned =>
        \A cut \in 1..(Len(contours) - 1) :
            /\ svg = PartPath(1, cut) \o PartPath(cut + 1, Len(contours))
            /\ Subpaths(svg) = Subpaths(PartPath(1, cut))
                               \o Subpaths(PartPath(cut + 1, Len(contours)))

\* An outline of two contours of two points, the second with a control
\* point, has been written.
C7_Witness ==
    /\ Returned
    /\ contours = <<1, 3>>
    /\ IsOff(2) \/ IsOff(3)
    /\ Len(Subpaths(svg)) = 2
    /\ Subpaths(svg)[2] = PartPath(2, 2)

\* C8: a call with zero points or with zero contours returns its marker, which
\* holds no command; it never enters the loops, so it reads no point, writes
\* nothing and has no undefined outcome.
C8_EmptyOutline ==
    (Len(points) = 0 \/ Len(contours) = 0) =>
        /\ pc \in {"start", "done"}
        /\ svg = << >>
        /\ call = << >>
        /\ pc = "done" =>
              result = IF Len(points) = 0
                       THEN "<!-- font had 0 points -->"
                       ELSE "<!-- font had 0 contours -->"

\* A call with zero points and one contour has returned.
C8_Witness ==
    /\ pc = "done"
    /\ Len(points) = 0
    /\ Len(contours) = 1
    /\ result = "<!-- font had 0 points -->"

\* The start and the end of the last sampled curve, as samples are written.
CallStart == [x |-> PrintInt(call.p0.x), y |-> PrintInt(call.p0.y)]

CallEnd == [x |-> PrintInt(call.p2.x), y |-> PrintInt(call.p2.y)]

\* C9 as stated: the samples fullQuadraticBezier returns hold neither the
\* start of the curve nor its end: none is taken at t = 0 or at t = 1.
C9_AsStated ==
    call # << >> =>
        \A n \in 1..Len(call.res) :
            /\ SampleParams[n] # DZero
            /\ SampleParams[n] # DOne
            /\ call.res[n] # CallStart
            /\ call.res[n] # CallEnd

\* C9 as amended: the first sample is taken at t = 0 and is the start of the
\* curve; every sample is taken at a t from 0 up to but not 1.0.
C9_SampleRange ==
    call # << >> =>
        /\ Len(call.res) = Len(SampleParams)
        /\ Len(call.res) >= 1
        /\ SampleParams[1] = DZero
        /\ call.res[1] = CallStart
        /\ \A n \in 1..Len(SampleParams) :
              /\ ~DLess(SampleParams[n], DZero)
              /\ DLess(SampleParams[n], DOne)

\* A curve from (0,0) by (10,10) to (20,0) has been sampled: its first sample
\* is (0,0).
C9_Witness ==
    /\ AfterPass
    /\ call # << >>
    /\ call.p0 = [x |-> 0, y |-> 0]
    /\ call.p1 = [x |-> 10, y |-> 10]
    /\ call.p2 = [x |-> 20, y |-> 0]
    /\ call.res[1] = [x |-> 0, y |-> 0]
    /\ last[1] = <<"L", 0, 0>>

\* The control points of contour k, and its pairs of on-curve points that
\* follow each other round it.
ControlsOf(k) == { m \in 0..(SizeOf(k) - 1) : OffCurve(k, m) }

OnPairsOf(k) ==
    { m \in 0..(SizeOf(k) - 1) : ~OffCurve(k, m) /\ ~OffCurve(k, m + 1) }

\* C10: with Q commands, a pass of the loop writes one Q, whose control is its
\* next point, when that point is a control point, and no Q otherwise; it
\* writes one L when its this and next points are both on the curve, and no L
\* otherwise.  So a contour gets as many Q as it has control points and as
\* many L as it has pairs of on-curve points that follow each other.
C10_ControlUsedOnce ==
    /\ (AfterPass /\ generateBezierStatements) =>
          /\ CountKind(last, "Q") = IF IsOff(NextPt) THEN 1 ELSE 0
          /\ IsOff(NextPt) =>
                ControlPoint(last[Len(last)]) = <<IntX(NextPt), IntY(NextPt)>>
          /\ CountKind(last, "L") =
                IF ~IsOff(ThisPt) /\ ~IsOff(NextPt) THEN 1 ELSE 0
    /\ (generateBezierStatements /\ pc \in {"contour", "done"}) =>
          \A k \in 1..Len(Subpaths(svg)) :
              /\ CountKind(Subpaths(svg)[k], "Q") = Cardinality(ControlsOf(k))
              /\ CountKind(Subpaths(svg)[k], "L") = Cardinality(OnPairsOf(k))

\* A contour of three control points has been written with three Q.
C10_Witness ==
    /\ Returned
    /\ generateBezierStatements
    /\ contours = <<2>>
    /\ Cardinality(ControlsOf(1)) = 3
    /\ CountKind(svg, "Q") = 3
    /\ CountKind(svg, "L") = 0

\* ------------------------------------------------------------ continuity

\* Contour k (from 1) starts with an on-curve point, or with two control
\* points (the second is the first again in a contour of one point).
StartsOnCurveOrTwoOff(k) ==
    \/ ~OffCurve(k, 0)
    \/ OffCurve(k, 0) /\ OffCurve(k, 1)

\* The coordinates the pass that has just run took for its this point: the
\* midpoint when this and next are both control points, else the point.
EffectiveThis ==
    IF IsOff(ThisPt) /\ IsOff(NextPt)
    THEN MidOut(ThisPt, NextPt)
    ELSE <<IntX(ThisPt), IntY(ThisPt)>>

\* The pass that has just run has drawn: the last command is its L or Q.
PassDrew == AfterPass /\ last # << >> /\ last[Len(last)][1] \in {"L", "Q"}

\* Where the pen was before the last command of the stream.
PenBefore == EndPoint(svg[Len(svg) - 1])

\* The last M of a subpath.
LastMoveOf(sub) ==
    sub[CHOOSE n \in 1..Len(sub) :
            /\ sub[n][1] = "M"
            /\ \A m \in (n + 1)..Len(sub) : sub[m][1] # "M"]

\* Contour i has just been closed: its subpath, up to and with the Z.
JustClosed == pc = "contour" /\ i >= 1 /\ last = << <<"Z">> >>

ClosedPath == Subpaths(svg)[i]

\* C11 as stated: with Q commands, for a contour that starts with an
\* on-curve point or with two control points, every pass that draws an L or a
\* Q finds the pen (the end of the command before) at the coordinates of its
\* this point (the point, or the midpoint when this and next are both control
\* points), and the last command before the Z ends at the last M of the
\* contour.
C11_AsStated ==
    /\ (PassDrew /\ generateBezierStatements /\ StartsOnCurveOrTwoOff(i + 1)) =>
          PenBefore = EffectiveThis
    /\ (JustClosed /\ generateBezierStatements /\ StartsOnCurveOrTwoOff(i)) =>
          EndPoint(ClosedPath[Len(ClosedPath) - 1])
              = EndPoint(LastMoveOf(ClosedPath))

=============================================================================
